---- MODULE Spec2Model ----
(***************************************************************************)
(* A model of linkedin_jobs_scraper.py: the run of main (login, then       *)
(* scrape, then the printing of the records), the construction of the      *)
(* search URL, and the scroll loop injected into the search page.          *)
(*                                                                         *)
(* Strings whose characters matter (the query, the location, the URL) are  *)
(* sequences of one-character strings.  The automation engine              *)
(* (AsyncWebCrawler) is the environment: each of its calls either returns  *)
(* or raises, and the kind of what it raises is an input.                  *)
(***************************************************************************)
EXTENDS Integers, Sequences, FiniteSets, TLC

\* ------------------------------------------------------------- bounds
\* Longest query / location drawn by InitUrl.
MaxLen == 3
\* Longest list of job records the engine returns.
MaxJobs == 2
\* Largest page height the scroll loop measures.
MaxHeight == 2
\* How many times the page height changes before it settles.
MaxGrow == 2

\* ------------------------------------------------------------- constants
\* const MAX_UNCHANGED = 3;
MAX_UNCHANGED == 3

VARIABLES
  pc,             \* position of the one asynchronous task (main and its callees)
  exc,            \* class of the exception in flight, "none" when there is none
  ret,            \* value of a `return` that is leaving an `async with` block
  sessions,       \* browser sessions entered and not yet exited
  events,         \* every engine call and console read so far, with its outcome
  out,            \* lines printed to standard output
  loginOutcome,   \* "pending", "True", "False" or "raised"
  scrapeOutcome,  \* "pending", "returned" or "raised"
  jobs,           \* the value scrape_linkedin_jobs returned
  mainOutcome,    \* "running", "returned" or "raised"
  idx,            \* position of `for job in jobs`
  content,        \* result.extracted_content of the search navigation
  search_query,   \* parameter of scrape_linkedin_jobs
  location,       \* parameter of scrape_linkedin_jobs
  url,            \* the URL handed to crawler.arun
  jsPc,           \* position of the injected scroll script
  lastHeight,     \* let lastHeight
  unchangedCount, \* let unchangedCount
  pageHeight,     \* document.body.scrollHeight, owned by the page
  growLeft,       \* changes of the page height still to come
  heights         \* every newHeight the loop measured, in order

mainVars == <<pc, exc, ret, sessions, events, out, loginOutcome, scrapeOutcome,
              jobs, mainOutcome, idx, content>>
urlVars == <<search_query, location, url>>
jsVars == <<jsPc, lastHeight, unchangedCount, pageHeight, growLeft, heights>>
vars == <<mainVars, urlVars, jsVars>>

\* ------------------------------------------------------------- exceptions
\* Classes the engine raises: two that derive from Exception (an engine error,
\* a page timeout) and asyncio.CancelledError, which derives from BaseException
\* only.
EngineErrors == {"RuntimeError", "TimeoutError", "CancelledError"}
\* Classes input() raises: EOFError at end of input, KeyboardInterrupt.
PromptErrors == {"EOFError", "KeyboardInterrupt"}

\* A handler that catches one class only.
IsRuntimeErrorOnly(k) == k = "RuntimeError"

\* `except Exception`: every class but those deriving from BaseException alone.
IsException(k) ==
  k \in {"RuntimeError", "TimeoutError", "EOFError", "TypeError",
         "JSONDecodeError", "KeyError"}

\* `except json.JSONDecodeError`
IsJSONDecodeError(k) == k = "JSONDecodeError"

\* ------------------------------------------------------------- values
\* The named fields of a job record; a record is the set of keys it holds.
Fields == <<"title", "company", "location", "posted_time", "link">>
FieldLabel ==
  [title |-> "Title", company |-> "Company", location |-> "Location",
   posted_time |-> "Posted", link |-> "Link"]
FieldSet == {Fields[i] : i \in 1..Len(Fields)}
JobRecords == SUBSET FieldSet

SeqsUpTo(S, n) == UNION {[1..k -> S] : k \in 0..n}

\* Python values: type, the items of a list, and n (the length of a list, dict
\* or str, the value of an int).
PyValue(t, items, n) == [type |-> t, items |-> items, n |-> n]
PyNone == PyValue("NoneType", <<>>, 0)
EmptyList == PyValue("list", <<>>, 0)

\* JSON documents the extraction can produce.
JsonDocs ==
  {[jtype |-> "array", items |-> s, n |-> Len(s)] : s \in SeqsUpTo(JobRecords, MaxJobs)}
  \cup {[jtype |-> t, items |-> <<>>, n |-> n] : t \in {"object", "number", "string"}, n \in 0..1}
  \cup {[jtype |-> "null", items |-> <<>>, n |-> 0]}

NoDoc == [jtype |-> "null", items |-> <<>>, n |-> 0]

\* result.extracted_content: None, the empty string, text that is not JSON, or
\* the text of a JSON document.
Contents ==
  {[kind |-> k, doc |-> NoDoc] : k \in {"None", "empty", "garbage"}}
  \cup {[kind |-> "json", doc |-> d] : d \in JsonDocs}

NoContent == [kind |-> "None", doc |-> NoDoc]

\* json.loads: TypeError for None, JSONDecodeError for text that is not JSON,
\* otherwise the Python value of the document.
PyTypeOf(jtype) ==
  CASE jtype = "array" -> "list"
    [] jtype = "object" -> "dict"
    [] jtype = "number" -> "int"
    [] jtype = "string" -> "str"
    [] jtype = "null" -> "NoneType"

json_loads(c) ==
  CASE c.kind = "None" -> [exc |-> "TypeError", value |-> PyNone]
    [] c.kind \in {"empty", "garbage"} -> [exc |-> "JSONDecodeError", value |-> PyNone]
    [] c.kind = "json" ->
         [exc |-> "none", value |-> PyValue(PyTypeOf(c.doc.jtype), c.doc.items, c.doc.n)]

\* bool(v), as `if not jobs` takes it.
Truthy(v) == v.type # "NoneType" /\ v.n # 0

\* Whether len(v) is defined.
HasLen(v) == v.type \in {"list", "dict", "str"}

\* ------------------------------------------------------------- output
Line(text, arg) == [text |-> text, arg |-> arg]

\* The lines one iteration of `for job in jobs` prints for record r at position
\* i: "---", then one line per field up to the first key r does not hold.
RECURSIVE FieldLines(_, _, _)
FieldLines(r, i, k) ==
  IF k > Len(Fields) \/ Fields[k] \notin r THEN <<>>
  ELSE <<Line(FieldLabel[Fields[k]], i)>> \o FieldLines(r, i, k + 1)

\* ------------------------------------------------------------- the URL
UrlPrefix ==
  <<"h", "t", "t", "p", "s", ":", "/", "/", "w", "w", "w", ".",
    "l", "i", "n", "k", "e", "d", "i", "n", ".", "c", "o", "m",
    "/", "j", "o", "b", "s", "/", "s", "e", "a", "r", "c", "h",
    "?", "k", "e", "y", "w", "o", "r", "d", "s", "=">>

UrlMiddle ==
  <<"&", "l", "o", "c", "a", "t", "i", "o", "n", "=">>

UrlSuffix ==
  <<"&", "t", "r", "k", "=", "p", "u", "b", "l", "i", "c", "_",
    "j", "o", "b", "s", "_", "j", "o", "b", "s", "-", "s", "e",
    "a", "r", "c", "h", "-", "b", "a", "r", "_", "s", "e", "a",
    "r", "c", "h", "-", "s", "u", "b", "m", "i", "t", "&", "p",
    "o", "s", "i", "t", "i", "o", "n", "=", "1", "&", "p", "a",
    "g", "e", "N", "u", "m", "=", "0">>

\* The arguments main passes.
PythonDeveloper ==
  <<"p", "y", "t", "h", "o", "n", " ", "d", "e", "v", "e", "l",
    "o", "p", "e", "r">>

UnitedStates ==
  <<"U", "n", "i", "t", "e", "d", " ", "S", "t", "a", "t", "e",
    "s">>

Percent20 == <<"%", "2", "0">>

\* s.replace(' ', '%20', 1): the first space only.
RECURSIVE ReplaceFirstSpace(_)
ReplaceFirstSpace(s) ==
  IF s = <<>> THEN <<>>
  ELSE IF Head(s) = " " THEN Percent20 \o Tail(s)
  ELSE <<Head(s)>> \o ReplaceFirstSpace(Tail(s))

\* s.replace(' ', '%20')
RECURSIVE ReplaceSpaces(_)
ReplaceSpaces(s) ==
  IF s = <<>> THEN <<>>
  ELSE (IF Head(s) = " " THEN Percent20 ELSE <<Head(s)>>) \o ReplaceSpaces(Tail(s))

\* The f-string of line 115, over the replaced query and location.
FormatUrl(q, l) ==
  UrlPrefix \o ReplaceSpaces(q) \o UrlMiddle \o ReplaceSpaces(l) \o UrlSuffix

\* ------------------------------------------------------------- the engine
\* One entry of the history: the call, the routine that made it, and "ok" or
\* the class it raised.
Event(op, who, res) == [op |-> op, who |-> who, res |-> res]

EngineOutcomes == {"ok"} \cup EngineErrors
PromptOutcomes == {"ok"} \cup PromptErrors

PyTrue == PyValue("bool", <<>>, 1)

\* ------------------------------------------------------------- main, login
MainRest ==
  /\ exc = "none"
  /\ ret = PyNone
  /\ sessions = 0
  /\ events = <<>>
  /\ out = <<>>
  /\ loginOutcome = "pending"
  /\ scrapeOutcome = "pending"
  /\ jobs = PyNone
  /\ mainOutcome = "running"
  /\ idx = 0
  /\ content = NoContent

InitMain == pc = "main" /\ MainRest

InitUrlIdle ==
  /\ search_query = <<>>
  /\ location = <<>>
  /\ url = <<>>

InitJsIdle ==
  /\ jsPc = "idle"
  /\ lastHeight = 0
  /\ unchangedCount = 0
  /\ pageHeight = 0
  /\ growLeft = 0
  /\ heights = <<>>

Init == InitMain /\ InitUrlIdle /\ InitJsIdle

\* main, lines 195-199, and the prints that open login_to_linkedin.
MainStart ==
  /\ pc = "main"
  /\ out' = out \o <<Line("LinkedIn Jobs Scraper", 0),
                     Line("Starting LinkedIn Login Process", 0),
                     Line("1. Opening browser...", 0)>>
  /\ pc' = "login_enter"
  /\ UNCHANGED <<exc, ret, sessions, events, loginOutcome, scrapeOutcome, jobs,
                 mainOutcome, idx, content, urlVars, jsVars>>

\* `async with crawler as browser`: the session opens, or opening raises.
LoginEnter ==
  /\ pc = "login_enter"
  /\ \E r \in EngineOutcomes :
       /\ events' = Append(events, Event("open", "login", r))
       /\ IF r = "ok"
          THEN /\ sessions' = sessions + 1
               /\ out' = Append(out, Line("2. Navigating to LinkedIn...", 0))
               /\ pc' = "login_arun"
               /\ exc' = exc
          ELSE /\ exc' = r
               /\ pc' = "login_except"
               /\ UNCHANGED <<sessions, out>>
  /\ UNCHANGED <<ret, loginOutcome, scrapeOutcome, jobs, mainOutcome, idx,
                 content, urlVars, jsVars>>

\* The login navigation with the prompt skipped: `return True` right after arun.
LoginArunNoPrompt ==
  /\ pc = "login_arun"
  /\ \E r \in EngineOutcomes :
       /\ events' = Append(events, Event("arun", "login", r))
       /\ IF r = "ok"
          THEN /\ ret' = PyTrue
               /\ exc' = exc
          ELSE /\ exc' = r
               /\ ret' = ret
  /\ pc' = "login_exit"
  /\ UNCHANGED <<sessions, out, loginOutcome, scrapeOutcome, jobs, mainOutcome,
                 idx, content, urlVars, jsVars>>

\* browser.arun(url="https://www.linkedin.com", config=login_config)
LoginArun ==
  /\ pc = "login_arun"
  /\ \E r \in EngineOutcomes :
       /\ events' = Append(events, Event("arun", "login", r))
       /\ IF r = "ok"
          THEN /\ out' = out \o <<Line("3. Browser navigation complete", 0),
                                  Line("4. Please log in to LinkedIn in the opened browser", 0),
                                  Line("5. After logging in, the script will save your session", 0)>>
               /\ pc' = "login_input"
               /\ exc' = exc
          ELSE /\ exc' = r
               /\ pc' = "login_exit"
               /\ out' = out
  /\ UNCHANGED <<ret, sessions, loginOutcome, scrapeOutcome, jobs, mainOutcome,
                 idx, content, urlVars, jsVars>>

\* input("Press Enter once you have logged in to continue..."); return True
LoginInput ==
  /\ pc = "login_input"
  /\ \E r \in PromptOutcomes :
       /\ events' = Append(events, Event("input", "login", r))
       /\ IF r = "ok"
          THEN /\ ret' = PyTrue
               /\ exc' = exc
          ELSE /\ exc' = r
               /\ ret' = ret
  /\ pc' = "login_exit"
  /\ UNCHANGED <<sessions, out, loginOutcome, scrapeOutcome, jobs, mainOutcome,
                 idx, content, urlVars, jsVars>>

\* The session closed on the return path only (crawler.close() before
\* `return True`, no `async with`).
LoginExitLeaksOnError ==
  /\ pc = "login_exit"
  /\ IF exc # "none"
     THEN /\ pc' = "login_except"
          /\ UNCHANGED <<events, sessions, exc, loginOutcome>>
     ELSE \E r \in EngineOutcomes :
            /\ events' = Append(events, Event("close", "login", r))
            /\ sessions' = sessions - 1
            /\ IF r # "ok"
               THEN /\ exc' = r
                    /\ pc' = "login_except"
                    /\ loginOutcome' = loginOutcome
               ELSE /\ loginOutcome' = "True"
                    /\ pc' = "main_after_login"
                    /\ exc' = exc
  /\ UNCHANGED <<ret, out, scrapeOutcome, jobs, mainOutcome, idx, content,
                 urlVars, jsVars>>

\* Leaving `async with`: __aexit__ runs on the return path and on every
\* exception path.  What it raises replaces the pending return or exception.
LoginExit ==
  /\ pc = "login_exit"
  /\ \E r \in EngineOutcomes :
       /\ events' = Append(events, Event("close", "login", r))
       /\ sessions' = sessions - 1
       /\ IF r # "ok"
          THEN /\ exc' = r
               /\ pc' = "login_except"
               /\ loginOutcome' = loginOutcome
          ELSE IF exc # "none"
          THEN /\ pc' = "login_except"
               /\ UNCHANGED <<exc, loginOutcome>>
          ELSE /\ loginOutcome' = "True"
               /\ pc' = "main_after_login"
               /\ exc' = exc
  /\ UNCHANGED <<ret, out, scrapeOutcome, jobs, mainOutcome, idx, content,
                 urlVars, jsVars>>

\* A handler that starts the login over.
LoginExceptRetries ==
  /\ pc = "login_except"
  /\ IF IsException(exc)
     THEN /\ out' = Append(out, Line("Error during login process", 0))
          /\ exc' = "none"
          /\ pc' = "login_enter"
          /\ UNCHANGED <<loginOutcome, mainOutcome>>
     ELSE /\ loginOutcome' = "raised"
          /\ mainOutcome' = "raised"
          /\ pc' = "done"
          /\ UNCHANGED <<out, exc>>
  /\ UNCHANGED <<ret, sessions, events, scrapeOutcome, jobs, idx, content,
                 urlVars, jsVars>>

\* `except Exception as e: print(...); return False`.  Any other class leaves
\* login_to_linkedin and then main, whose line 199 is in no try block.
LoginExcept ==
  /\ pc = "login_except"
  /\ IF IsException(exc)
     THEN /\ out' = Append(out, Line("Error during login process", 0))
          /\ loginOutcome' = "False"
          /\ exc' = "none"
          /\ pc' = "main_after_login"
          /\ mainOutcome' = mainOutcome
     ELSE /\ loginOutcome' = "raised"
          /\ mainOutcome' = "raised"
          /\ pc' = "done"
          /\ UNCHANGED <<out, exc>>
  /\ UNCHANGED <<ret, sessions, events, scrapeOutcome, jobs, idx, content,
                 urlVars, jsVars>>

\* main that goes on to the search whatever login returned.
MainAfterLoginIgnoresResult ==
  /\ pc = "main_after_login"
  /\ out' = out \o <<Line("Starting Job Search", 0),
                     Line("1. Searching for Python developer jobs in United States...", 0)>>
  /\ search_query' = PythonDeveloper
  /\ location' = UnitedStates
  /\ pc' = "scrape_enter"
  /\ UNCHANGED <<mainOutcome, url>>
  /\ UNCHANGED <<exc, ret, sessions, events, loginOutcome, scrapeOutcome, jobs,
                 idx, content, jsVars>>

\* main, lines 199-208.
MainAfterLogin ==
  /\ pc = "main_after_login"
  /\ IF loginOutcome = "False"
     THEN /\ out' = Append(out, Line("Failed to complete login process", 0))
          /\ mainOutcome' = "returned"
          /\ pc' = "done"
          /\ UNCHANGED urlVars
     ELSE /\ out' = out \o <<Line("Starting Job Search", 0),
                             Line("1. Searching for Python developer jobs in United States...", 0)>>
          /\ search_query' = PythonDeveloper
          /\ location' = UnitedStates
          /\ pc' = "scrape_enter"
          /\ UNCHANGED <<mainOutcome, url>>
  /\ UNCHANGED <<exc, ret, sessions, events, loginOutcome, scrapeOutcome, jobs,
                 idx, content, jsVars>>

\* ------------------------------------------------------------- scrape
\* Lines 113-118: the URL is built, then `async with AsyncWebCrawler(...)`.
ScrapeEnter ==
  /\ pc = "scrape_enter"
  /\ url' = FormatUrl(search_query, location)
  /\ \E r \in EngineOutcomes :
       /\ events' = Append(events, Event("open", "scrape", r))
       /\ IF r = "ok"
          THEN /\ sessions' = sessions + 1
               /\ pc' = "scrape_arun"
               /\ exc' = exc
          ELSE /\ exc' = r
               /\ pc' = "scrape_except"
               /\ sessions' = sessions
  /\ UNCHANGED <<ret, out, loginOutcome, scrapeOutcome, jobs, mainOutcome, idx,
                 content, search_query, location, jsVars>>

\* result = await crawler.arun(url=url, config=run_config)
ScrapeArun ==
  /\ pc = "scrape_arun"
  /\ \/ \E r \in EngineErrors :
          /\ events' = Append(events, Event("arun", "scrape", r))
          /\ exc' = r
          /\ pc' = "scrape_exit"
          /\ content' = content
     \/ \E c \in Contents :
          /\ events' = Append(events, Event("arun", "scrape", "ok"))
          /\ content' = c
          /\ pc' = "scrape_parse"
          /\ exc' = exc
  /\ UNCHANGED <<ret, sessions, out, loginOutcome, scrapeOutcome, jobs,
                 mainOutcome, idx, urlVars, jsVars>>

\* Lines 121-127: jobs = json.loads(result.extracted_content); return jobs,
\* with `except json.JSONDecodeError` around it.
ScrapeParse ==
  /\ pc = "scrape_parse"
  /\ LET p == json_loads(content) IN
       IF p.exc = "none"
       THEN /\ ret' = p.value
            /\ UNCHANGED <<exc, out>>
       ELSE IF IsJSONDecodeError(p.exc)
       THEN /\ out' = Append(out, Line("No jobs found or error parsing results", 0))
            /\ ret' = EmptyList
            /\ exc' = exc
       ELSE /\ exc' = p.exc
            /\ UNCHANGED <<ret, out>>
  /\ pc' = "scrape_exit"
  /\ UNCHANGED <<sessions, events, loginOutcome, scrapeOutcome, jobs,
                 mainOutcome, idx, content, urlVars, jsVars>>

\* Leaving `async with` in scrape_linkedin_jobs.
ScrapeExit ==
  /\ pc = "scrape_exit"
  /\ \E r \in EngineOutcomes :
       /\ events' = Append(events, Event("close", "scrape", r))
       /\ sessions' = sessions - 1
       /\ IF r # "ok"
          THEN /\ exc' = r
               /\ pc' = "scrape_except"
               /\ UNCHANGED <<jobs, scrapeOutcome>>
          ELSE IF exc # "none"
          THEN /\ pc' = "scrape_except"
               /\ UNCHANGED <<exc, jobs, scrapeOutcome>>
          ELSE /\ jobs' = ret
               /\ scrapeOutcome' = "returned"
               /\ pc' = "main_after_scrape"
               /\ exc' = exc
  /\ UNCHANGED <<ret, out, loginOutcome, mainOutcome, idx, content, urlVars,
                 jsVars>>

\* A handler that ends in a bare `return`.
ScrapeExceptReturnsNone ==
  /\ pc = "scrape_except"
  /\ IF IsException(exc)
     THEN /\ out' = Append(out, Line("Error occurred", 0))
          /\ jobs' = PyNone
          /\ scrapeOutcome' = "returned"
          /\ exc' = "none"
          /\ pc' = "main_after_scrape"
     ELSE /\ scrapeOutcome' = "raised"
          /\ pc' = "main_scrape_except"
          /\ UNCHANGED <<out, jobs, exc>>
  /\ UNCHANGED <<ret, sessions, events, loginOutcome, mainOutcome, idx, content,
                 urlVars, jsVars>>

\* `except Exception as e: print(...); return []`
ScrapeExcept ==
  /\ pc = "scrape_except"
  /\ IF IsException(exc)
     THEN /\ out' = Append(out, Line("Error occurred", 0))
          /\ jobs' = EmptyList
          /\ scrapeOutcome' = "returned"
          /\ exc' = "none"
          /\ pc' = "main_after_scrape"
     ELSE /\ scrapeOutcome' = "raised"
          /\ pc' = "main_scrape_except"
          /\ UNCHANGED <<out, jobs, exc>>
  /\ UNCHANGED <<ret, sessions, events, loginOutcome, mainOutcome, idx, content,
                 urlVars, jsVars>>

\* ------------------------------------------------------------- main, the rest
\* Lines 207-211: the try block around the call of scrape_linkedin_jobs.
MainScrapeExcept ==
  /\ pc = "main_scrape_except"
  /\ IF IsException(exc)
     THEN /\ out' = Append(out, Line("Error during job search", 0))
          /\ mainOutcome' = "returned"
          /\ exc' = "none"
     ELSE /\ mainOutcome' = "raised"
          /\ UNCHANGED <<out, exc>>
  /\ pc' = "done"
  /\ UNCHANGED <<ret, sessions, events, loginOutcome, scrapeOutcome, jobs, idx,
                 content, urlVars, jsVars>>

\* Lines 213-221: `if not jobs`, then the count.  len() of an int raises.
MainAfterScrape ==
  /\ pc = "main_after_scrape"
  /\ IF ~Truthy(jobs)
     THEN /\ out' = out \o <<Line("No jobs were found. This could be due to:", 0),
                             Line("1. Not logged in to LinkedIn (please run again and log in)", 0),
                             Line("2. No matching jobs in the specified location", 0),
                             Line("3. Network connectivity issues", 0)>>
          /\ mainOutcome' = "returned"
          /\ pc' = "done"
          /\ UNCHANGED <<exc, idx>>
     ELSE IF ~HasLen(jobs)
     THEN /\ exc' = "TypeError"
          /\ mainOutcome' = "raised"
          /\ pc' = "done"
          /\ UNCHANGED <<out, idx>>
     ELSE /\ out' = Append(out, Line("Found jobs:", jobs.n))
          /\ idx' = 1
          /\ pc' = "main_loop"
          /\ UNCHANGED <<exc, mainOutcome>>
  /\ UNCHANGED <<ret, sessions, events, loginOutcome, scrapeOutcome, jobs,
                 content, urlVars, jsVars>>

\* Lines 222-228, one iteration of `for job in jobs`.  job['title'] raises
\* KeyError when the record lacks the key, and TypeError when job is a str (a
\* key of a dict, a character of a str).
MainLoop ==
  /\ pc = "main_loop"
  /\ IF idx > jobs.n
     THEN /\ mainOutcome' = "returned"
          /\ pc' = "done"
          /\ UNCHANGED <<out, exc, idx>>
     ELSE IF jobs.type # "list"
     THEN /\ out' = Append(out, Line("---", idx))
          /\ exc' = "TypeError"
          /\ mainOutcome' = "raised"
          /\ pc' = "done"
          /\ idx' = idx
     ELSE LET r == jobs.items[idx] IN
          /\ out' = out \o <<Line("---", idx)>> \o FieldLines(r, idx, 1)
          /\ IF FieldSet \subseteq r
             THEN /\ idx' = idx + 1
                  /\ UNCHANGED <<exc, mainOutcome, pc>>
             ELSE /\ exc' = "KeyError"
                  /\ mainOutcome' = "raised"
                  /\ pc' = "done"
                  /\ idx' = idx
  /\ UNCHANGED <<ret, sessions, events, loginOutcome, scrapeOutcome, jobs,
                 content, urlVars, jsVars>>

Next ==
  \/ MainStart
  \/ LoginEnter
  \/ LoginArun
  \/ LoginInput
  \/ LoginExit
  \/ LoginExcept
  \/ MainAfterLogin
  \/ ScrapeEnter
  \/ ScrapeArun
  \/ ScrapeParse
  \/ ScrapeExit
  \/ ScrapeExcept
  \/ MainScrapeExcept
  \/ MainAfterScrape
  \/ MainLoop

Spec == Init /\ [][Next]_vars

\* ------------------------------------------------------------- the history
EngineOps == {"open", "arun", "close"}
Raises == EngineErrors \cup PromptErrors

\* Positions in the history of the calls of `who` among ops that ended in results.
Calls(who, ops, results) ==
  {i \in DOMAIN events :
     events[i].who = who /\ events[i].op \in ops /\ events[i].res \in results}

Latest(S) == CHOOSE m \in S : \A x \in S : x <= m

\* The class of the last exception raised in `who` by a call among ops.
LastRaise(who, ops) ==
  IF Calls(who, ops, Raises) = {} THEN "none"
  ELSE events[Latest(Calls(who, ops, Raises))].res

\* The classes of the model that are subclasses of Exception.
DerivesFromException(k) == k \in {"RuntimeError", "TimeoutError", "EOFError"}

LoginFinished == loginOutcome # "pending"
ScrapeFinished == scrapeOutcome # "pending"

\* ------------------------------------------------------------- C1
\* C1: once login_to_linkedin has returned False, whatever failed in it, no
\* call of the scrape routine is in the history (no session opened for it, no
\* search navigation), and main ends by printing the login-failure message and
\* returning.
C1_NoScrapeAfterFailedLogin ==
  loginOutcome = "False" =>
    /\ Calls("scrape", EngineOps, {"ok"} \cup Raises) = {}
    /\ scrapeOutcome = "pending"
    /\ url = <<>>
    /\ pc \in {"main_after_login", "done"}
    /\ pc = "done" =>
         /\ mainOutcome = "returned"
         /\ out[Len(out)] = Line("Failed to complete login process", 0)

\* main has returned after a login that failed at the operator prompt.
C1_Witness ==
  /\ pc = "done"
  /\ loginOutcome = "False"
  /\ Calls("login", {"input"}, {"EOFError"}) # {}

\* ------------------------------------------------------------- C2
\* C2 as stated: whenever the engine raised in a routine, whatever the class,
\* login_to_linkedin returns False and scrape_linkedin_jobs returns [].
C2_AnyClassIsCaught ==
  /\ (LoginFinished /\ LastRaise("login", EngineOps) # "none") =>
       loginOutcome = "False"
  /\ (ScrapeFinished /\ LastRaise("scrape", EngineOps) # "none") =>
       (scrapeOutcome = "returned" /\ jobs = EmptyList)

\* C2, amended: when the last exception the engine raised in a routine derives
\* from Exception, login_to_linkedin returns False and scrape_linkedin_jobs
\* returns [], the same for every such class; when it derives from
\* BaseException only, it propagates to the caller.
C2_ExceptionsAreCaught ==
  /\ (LoginFinished /\ LastRaise("login", EngineOps) # "none") =>
       IF DerivesFromException(LastRaise("login", EngineOps))
       THEN loginOutcome = "False"
       ELSE loginOutcome = "raised"
  /\ (ScrapeFinished /\ LastRaise("scrape", EngineOps) # "none") =>
       IF DerivesFromException(LastRaise("scrape", EngineOps))
       THEN scrapeOutcome = "returned" /\ jobs = EmptyList
       ELSE scrapeOutcome = "raised"

\* The search navigation timed out and scrape_linkedin_jobs has returned.
C2_Witness ==
  /\ ScrapeFinished
  /\ Calls("scrape", {"arun"}, {"TimeoutError"}) # {}
  /\ Calls("login", {"arun"}, {"ok"}) # {}
  /\ jobs = EmptyList

C4_ReturnsAList ==
  scrapeOutcome = "returned" => jobs.type = "list"

\* ------------------------------------------------------------- C6
Acknowledged ==
  \E i, j \in DOMAIN events :
    /\ i < j
    /\ events[i] = Event("arun", "login", "ok")
    /\ events[j] = Event("input", "login", "ok")

PromptFailed == Calls("login", {"input"}, PromptErrors) # {}

\* C6 as stated: True only after the navigation returned and then the operator
\* acknowledged; False whenever the prompt failed.
C6_PromptFailureGivesFalse ==
  /\ loginOutcome = "True" => Acknowledged
  /\ (LoginFinished /\ PromptFailed) => loginOutcome = "False"

\* C6, amended: True only after the navigation returned and then the operator
\* acknowledged; when the prompt failed login_to_linkedin never returns True:
\* it returns False if the exception that leaves the `async with` block (the
\* prompt's, or the one raised while closing) derives from Exception, and the
\* exception propagates otherwise.
C6_TrueOnlyAfterAcknowledgment ==
  /\ loginOutcome = "True" => Acknowledged
  /\ (LoginFinished /\ PromptFailed) =>
       IF DerivesFromException(LastRaise("login", {"input", "close"}))
       THEN loginOutcome = "False"
       ELSE loginOutcome = "raised"

\* login_to_linkedin has returned True.
C6_Witness ==
  /\ loginOutcome = "True"
  /\ pc = "main_after_login"
  /\ Acknowledged

\* ------------------------------------------------------------- C7
AllResults == {"ok"} \cup Raises
RootNavigations == Calls("login", {"arun"}, AllResults)
SearchNavigations == Calls("scrape", {"arun"}, AllResults)

\* Every search navigation starts after the login navigation returned, the
\* operator acknowledged and the login session closed.
LoginThenScrape ==
  \A j \in SearchNavigations :
    \E a, b, c \in 1..(j - 1) :
      /\ a < b /\ b < c
      /\ events[a] = Event("arun", "login", "ok")
      /\ events[b] = Event("input", "login", "ok")
      /\ events[c] = Event("close", "login", "ok")

\* C7 as stated: at most two engine navigations, login then scrape, and exactly
\* one navigation to the site root in every run of main.
C7_ExactlyOneRootNavigation ==
  /\ Cardinality(RootNavigations) <= 1
  /\ Cardinality(SearchNavigations) <= 1
  /\ LoginThenScrape
  /\ pc = "done" => Cardinality(RootNavigations) = 1

\* C7, amended: at most one navigation to the site root (exactly one when the
\* login session opened, none when opening it raised), then at most one
\* navigation to the search URL, which starts only after the login navigation
\* returned and the operator acknowledged; neither routine calls arun twice.
C7_AtMostOneNavigationEach ==
  /\ Cardinality(RootNavigations) <= 1
  /\ Cardinality(SearchNavigations) <= 1
  /\ LoginThenScrape
  /\ pc = "done" =>
       Cardinality(RootNavigations) = Cardinality(Calls("login", {"open"}, {"ok"}))
  /\ pc = "done" =>
       Cardinality(SearchNavigations) = Cardinality(Calls("scrape", {"open"}, {"ok"}))

\* main is over after both navigations, the second of which failed.
C7_Witness ==
  /\ pc = "done"
  /\ Cardinality(RootNavigations) = 1
  /\ Calls("scrape", {"arun"}, {"RuntimeError"}) # {}

\* ------------------------------------------------------------- C8
RECURSIVE RecordBlocks(_, _)
RecordBlocks(items, i) ==
  IF i > Len(items) THEN <<>>
  ELSE <<Line("---", i), Line("Title", i), Line("Company", i),
         Line("Location", i), Line("Posted", i), Line("Link", i)>>
       \o RecordBlocks(items, i + 1)

EndsWith(s, t) ==
  /\ Len(t) <= Len(s)
  /\ SubSeq(s, Len(s) - Len(t) + 1, Len(s)) = t

\* C8: when scrape_linkedin_jobs returned a non-empty list of records, whose
\* fields are each present or absent, main ends by returning, having printed
\* the count and then one five-line block per record in order; when it
\* returned an empty list main prints the explanation and no block.
C8_PrintsEveryRecord ==
  (pc = "done" /\ scrapeOutcome = "returned" /\ jobs.type = "list") =>
    IF jobs.n > 0
    THEN /\ mainOutcome = "returned"
         /\ EndsWith(out, <<Line("Found jobs:", jobs.n)>> \o RecordBlocks(jobs.items, 1))
    ELSE /\ mainOutcome = "returned"
         /\ out[Len(out)] = Line("3. Network connectivity issues", 0)
         /\ \A i \in DOMAIN out : out[i].text # "---"

\* ------------------------------------------------------------- C9
InsideSession ==
  {"login_arun", "login_input", "login_exit",
   "scrape_arun", "scrape_parse", "scrape_exit"}

\* C9: at most one session is open at any time; a session is open only between
\* the entry and the exit of the `async with` block of the routine that opened
\* it, on every path; and the login session is closed before the scrape
\* session is opened.
C9_OneSessionClosedOnEveryPath ==
  /\ sessions \in {0, 1}
  /\ sessions = 1 <=> pc \in InsideSession
  /\ \A who \in {"login", "scrape"} :
       pc \notin InsideSession =>
         Cardinality(Calls(who, {"open"}, {"ok"})) = Cardinality(Calls(who, {"close"}, AllResults))
  /\ \A j \in Calls("scrape", {"open"}, AllResults) :
       \E i \in Calls("login", {"close"}, AllResults) : i < j

\* The scrape session is open, the login session having been opened and closed.
C9_Witness ==
  /\ pc = "scrape_arun"
  /\ sessions = 1
  /\ Calls("login", {"open"}, {"ok"}) # {}

\* ------------------------------------------------------------- the URL alone
\* scrape_linkedin_jobs called with any query and location: lines 113-115.
Alphabet == {"a", " ", "%"}
UrlInputs == SeqsUpTo(Alphabet, MaxLen) \cup {PythonDeveloper, UnitedStates}

InitUrl ==
  /\ pc = "format_url"
  /\ MainRest
  /\ search_query \in UrlInputs
  /\ location \in UrlInputs
  /\ url = <<>>
  /\ InitJsIdle

BuildUrl ==
  /\ pc = "format_url"
  /\ url' = FormatUrl(search_query, location)
  /\ pc' = "url_built"
  /\ UNCHANGED <<exc, ret, sessions, events, out, loginOutcome, scrapeOutcome,
                 jobs, mainOutcome, idx, content, search_query, location, jsVars>>

NextUrl == BuildUrl

SpecUrl == InitUrl /\ [][NextUrl]_vars

\* ------------------------------------------------------------- C5
KeywordsParam ==
  <<"k", "e", "y", "w", "o", "r", "d", "s", "=">>

LocationParam ==
  <<"&", "l", "o", "c", "a", "t", "i", "o", "n", "=">>

ExampleSubstring ==
  <<"k", "e", "y", "w", "o", "r", "d", "s", "=", "p", "y", "t",
    "h", "o", "n", "%", "2", "0", "d", "e", "v", "e", "l", "o",
    "p", "e", "r", "&", "l", "o", "c", "a", "t", "i", "o", "n",
    "=", "U", "n", "i", "t", "e", "d", "%", "2", "0", "S", "t",
    "a", "t", "e", "s">>

\* e is s with each space turned into the three characters %20 and every other
\* character kept, in order.
RECURSIVE IsEncodingOf(_, _)
IsEncodingOf(e, s) ==
  IF s = <<>> THEN e = <<>>
  ELSE IF Head(s) = " "
  THEN /\ Len(e) >= 3
       /\ SubSeq(e, 1, 3) = <<"%", "2", "0">>
       /\ IsEncodingOf(SubSeq(e, 4, Len(e)), Tail(s))
  ELSE /\ Len(e) >= 1
       /\ Head(e) = Head(s)
       /\ IsEncodingOf(Tail(e), Tail(s))

EncodedLen(s) == Len(s) + 2 * Cardinality({i \in DOMAIN s : s[i] = " "})

ContainsAt(s, t, i) == i + Len(t) - 1 <= Len(s) /\ SubSeq(s, i, i + Len(t) - 1) = t
Contains(s, t) == \E i \in 1..Len(s) : ContainsAt(s, t, i)

\* C5: the URL built from any query and location holds no space, and holds
\* keywords=<query>&location=<location> with each space of the two inputs
\* replaced by %20 and every other character unchanged and in order; the
\* documented example yields its stated substring.
C5_UrlEncodesSpaces ==
  pc = "url_built" =>
    /\ \A i \in DOMAIN url : url[i] # " "
    /\ \E i \in DOMAIN url :
         LET q0 == i + Len(KeywordsParam)
             l0 == q0 + EncodedLen(search_query)
             e0 == l0 + Len(LocationParam)
         IN /\ ContainsAt(url, KeywordsParam, i)
            /\ ContainsAt(url, LocationParam, l0)
            /\ e0 + EncodedLen(location) - 1 <= Len(url)
            /\ IsEncodingOf(SubSeq(url, q0, l0 - 1), search_query)
            /\ IsEncodingOf(SubSeq(url, e0, e0 + EncodedLen(location) - 1), location)
    /\ (search_query = PythonDeveloper /\ location = UnitedStates) =>
         Contains(url, ExampleSubstring)

\* The URL of the documented example has been built.
C5_Witness ==
  /\ pc = "url_built"
  /\ search_query = PythonDeveloper
  /\ location = UnitedStates

\* ------------------------------------------------------------- the scroll loop
\* The script of lines 71-101 after its first delay.  The page owns its height:
\* it changes it (content loading after a scroll or a click on "Show more") a
\* bounded number of times.
InitScroll ==
  /\ pc = "script"
  /\ MainRest
  /\ InitUrlIdle
  /\ jsPc = "loop"
  /\ lastHeight = 0
  /\ unchangedCount = 0
  /\ pageHeight \in 0..MaxHeight
  /\ growLeft = MaxGrow
  /\ heights = <<>>

\* The loop body without its else branch: the count is never reset.
ScrollStepNoReset ==
  /\ jsPc = "loop"
  /\ unchangedCount < MAX_UNCHANGED
  /\ LET newHeight == pageHeight IN
       /\ unchangedCount' = IF newHeight = lastHeight
                            THEN unchangedCount + 1
                            ELSE unchangedCount
       /\ lastHeight' = newHeight
       /\ heights' = Append(heights, newHeight)
  /\ UNCHANGED <<jsPc, pageHeight, growLeft, mainVars, urlVars>>

\* Lines 82-97: one iteration of `while (unchangedCount < MAX_UNCHANGED)`.
ScrollStep ==
  /\ jsPc = "loop"
  /\ unchangedCount < MAX_UNCHANGED
  /\ LET newHeight == pageHeight IN
       /\ unchangedCount' = IF newHeight = lastHeight
                            THEN unchangedCount + 1
                            ELSE 0
       /\ lastHeight' = newHeight
       /\ heights' = Append(heights, newHeight)
  /\ UNCHANGED <<jsPc, pageHeight, growLeft, mainVars, urlVars>>

\* Lines 82 and 99-100: the loop condition fails and the script ends.
ScrollExit ==
  /\ jsPc = "loop"
  /\ ~(unchangedCount < MAX_UNCHANGED)
  /\ jsPc' = "done"
  /\ UNCHANGED <<lastHeight, unchangedCount, pageHeight, growLeft, heights,
                 mainVars, urlVars>>

\* The page changes its height.
PageGrow ==
  /\ jsPc = "loop"
  /\ growLeft > 0
  /\ \E h \in (0..MaxHeight) \ {pageHeight} : pageHeight' = h
  /\ growLeft' = growLeft - 1
  /\ UNCHANGED <<jsPc, lastHeight, unchangedCount, heights, mainVars, urlVars>>

NextScroll ==
  \/ ScrollStep
  \/ ScrollExit
  \/ PageGrow

\* The browser keeps running the script: its timers fire.
SpecScrollFair ==
  /\ InitScroll
  /\ [][NextScroll]_vars
  /\ WF_vars(ScrollStep)
  /\ WF_vars(ScrollExit)

\* ------------------------------------------------------------- C10
\* The measurement before the i-th one; the first is compared with 0.
Previous(h, i) == IF i = 1 THEN 0 ELSE h[i - 1]

\* The last three measurements of h each equal the one before.
Settled(h) ==
  /\ Len(h) >= 3
  /\ \A i \in (Len(h) - 2)..Len(h) : h[i] = Previous(h, i)

\* How many measurements at the end of h each equal the one before.
RECURSIVE UnchangedRun(_)
UnchangedRun(h) ==
  IF h = <<>> \/ h[Len(h)] # Previous(h, Len(h)) THEN 0
  ELSE 1 + UnchangedRun(SubSeq(h, 1, Len(h) - 1))

ScrollInvariant ==
  /\ unchangedCount \in 0..3
  /\ unchangedCount = UnchangedRun(heights)
  /\ heights # <<>> => lastHeight = heights[Len(heights)]
  /\ jsPc = "done" => (Settled(heights) /\ Len(heights) >= 3)
  /\ \A k \in 0..(Len(heights) - 1) : ~Settled(SubSeq(heights, 1, k))
  /\ (jsPc = "loop" /\ ~Settled(heights)) => ENABLED ScrollStep
  /\ (jsPc = "loop" /\ Settled(heights)) => (~ENABLED ScrollStep /\ ENABLED ScrollExit)

\* C10: unchangedCount stays in 0..3 and counts the measurements at the end of
\* the history that each equal the one before (0 before the first), so it is 0
\* after a measurement that differs; the loop ends exactly when three
\* consecutive measurements each equal the one before, never after fewer than
\* three iterations, and goes on for as long as they do not, whatever the number
\* of iterations; it ends once the page height has stopped changing.
C10_ScrollLoop == []ScrollInvariant /\ <>(jsPc = "done")

\* The loop has ended after the count was reset at least once.
C10_Witness ==
  /\ jsPc = "done"
  /\ Len(heights) > 3
  /\ \E i \in DOMAIN heights : heights[i] # Previous(heights, i)

====
